---- MODULE Spec2Model ----
(***************************************************************************)
(* Model of src/conn/mock_impl.rs: the mock implementations of the         *)
(* Generic* traits (MockRow, MockStmt, MockQueryResult, MockConnection).   *)
(*                                                                         *)
(* Rust's Option<T> is modelled as a sequence of length 0 (None) or        *)
(* 1 (Some(x)).  Ordinals are 0-based as in the source; Vec element k is   *)
(* the TLA+ sequence element k + 1.                                        *)
(***************************************************************************)
EXTENDS Integers, Sequences, FiniteSets, TLC

\* Largest number of columns of a row, statement or result set.
MaxCols == 2

\* Largest number of entries in a MockQueryResult's rows buffer.
MaxRows == 3

None == <<>>
Some(x) == <<x>>

\* Column descriptors are identified by their name.
ColNames == {"a", "b"}

\* Names a caller may ask for: the column names and one carried by no column.
AskNames == ColNames \cup {"zz"}

\* The Value domain: a tagged cell value.
Values == {[tag |-> "Int", v |-> 7], [tag |-> "Bytes", v |-> 120]}

\* The types T a caller may request.
Types == {"Int", "Bytes"}

RowRequestType == {"Get", "Take"}

\* Query texts a caller may pass.
Queries == {"SELECT 1", "SELECT 2"}

\* The closures a test author may register in a callback slot.
Callbacks == {"f", "g"}

\* A callback slot: unset, or holding one closure.
Slots == {None} \cup {Some(cb) : cb \in Callbacks}

\* What a caller may pass where P: Into<Params> is expected: the unit value,
\* a vector of values, or a Params value itself.
ParamInputs ==
    { [form |-> "unit", kind |-> "", v |-> <<>>],
      [form |-> "vec", kind |-> "", v |-> <<7>>],
      [form |-> "params", kind |-> "Positional", v |-> <<9>>],
      [form |-> "params", kind |-> "Empty", v |-> <<>>] }

\* The entries of a rows buffer: MyResult<MockRow>, a row or an error.
Entries == {[ok |-> TRUE, id |-> "A"], [ok |-> FALSE, id |-> "E"]}

\* HashMap<String, usize>: the name -> ordinal maps a holder may carry.
IndexMaps == UNION {[D -> 0..(MaxCols - 1)] : D \in SUBSET ColNames}

\* A column index: a numeric ordinal or a column name.
Indexes ==
    [kind : {"ord"}, n : 0..MaxCols, s : {""}]
        \cup [kind : {"name"}, n : {0}, s : AskNames]

\* All sequences over S of length at most n.
SeqsUpTo(S, n) == UNION {[1..k -> S] : k \in 0..n}

VARIABLES
    \* MockRow: its fields, then the observation of its calls: whether the
    \* row is live, the last call, the values as constructed, the ordinals a
    \* take has cleared, whether a get has read a value
    values, columns, requests,
    rowStatus, rowCall, rowOrig, rowTaken, rowGotten,
    \* MockStmt
    stmt_columns, stmt_column_indexes, fn_execute, stmt_fn_first_exec, query,
    stmtStatus, stmtCall, stmtOrigQuery,
    \* MockQueryResult
    res_columns, res_column_indexes, rows,
    resCall, resSupplied, resYielded, resExhausted,
    \* MockConnection
    fn_query, fn_first, fn_prepare, fn_prep_exec, fn_first_exec,
    connStatus, connCall

rowVars == <<values, columns, requests, rowStatus, rowCall, rowOrig, rowTaken, rowGotten>>

stmtVars == <<stmt_columns, stmt_column_indexes, fn_execute, stmt_fn_first_exec, query,
              stmtStatus, stmtCall, stmtOrigQuery>>

resVars == <<res_columns, res_column_indexes, rows,
             resCall, resSupplied, resYielded, resExhausted>>

connVars == <<fn_query, fn_first, fn_prepare, fn_prep_exec, fn_first_exec,
              connStatus, connCall>>

vars == <<rowVars, stmtVars, resVars, connVars>>

----------------------------------------------------------------------------
(* External collaborators (prelude / value module).                        *)

\* ColumnIndex::idx: an ordinal resolves when in range, a name resolves to
\* the first column carrying it.
Idx(index, cols) ==
    IF index.kind = "ord"
    THEN IF index.n < Len(cols) THEN Some(index.n) ELSE None
    ELSE LET hits == {k \in 1..Len(cols) : cols[k] = index.s} IN
         IF hits = {} THEN None
         ELSE Some((CHOOSE k \in hits : \A j \in hits : k <= j) - 1)

\* from_value_opt::<T>: Ok(payload as T) when the value's type matches T,
\* Err(FromValueError(value)) otherwise.
from_value_opt(T, val) ==
    IF val.tag = T
    THEN [ok |-> TRUE, val |-> Some(val.v), err |-> None]
    ELSE [ok |-> FALSE, val |-> None, err |-> Some(val)]

\* from_value::<T>: the payload, or a panic on mismatch.
from_value(T, val) ==
    LET r == from_value_opt(T, val) IN
    IF r.ok THEN [panic |-> FALSE, val |-> r.val] ELSE [panic |-> TRUE, val |-> None]

\* Into<Params>: () is Params::Empty, a vector is Params::Positional, a
\* Params value is itself.
IntoParams(p) ==
    IF p.form = "unit" THEN [kind |-> "Empty", v |-> <<>>]
    ELSE IF p.form = "vec" THEN [kind |-> "Positional", v |-> p.v]
    ELSE [kind |-> p.kind, v |-> p.v]

\* The value closure cb returns for the arguments it is given: closures are
\* opaque, so the result is the application itself.
Apply(cb, q, p) == [by |-> cb, q |-> q, p |-> p]

\* The record of one closure invocation.
Invocation(slot, cb, q, p) == [slot |-> slot, cb |-> cb, q |-> q, p |-> p]

NoParams == [kind |-> "None", v |-> <<>>]

\* Vec::get
VecGet(vec, i) == IF i < Len(vec) THEN Some(vec[i + 1]) ELSE None

----------------------------------------------------------------------------
(* MockRow (impl GenericRow for MockRow).                                  *)
(* Each operation is a function of the row's fields and the call's inputs  *)
(* giving the returned Option, whether the call panicked, and the values   *)
(* vector it leaves behind.                                                *)

Outcome(ret, panic, vals) == [ret |-> ret, panic |-> panic, values |-> vals]

\* The slot an extraction reaches: the ordinal the index resolves to when
\* that slot exists and is present, None otherwise.
Hit(vals, cols, index) ==
    LET i == Idx(index, cols) IN
    IF i = None THEN None
    ELSE LET slot == VecGet(vals, i[1]) IN
         IF slot = None \/ slot[1] = None THEN None ELSE i

\* fn len
RowLen(vals) == Len(vals)

\* fn as_ref
RowAsRef(vals, n) ==
    LET slot == VecGet(vals, n) IN
    IF slot = None THEN None ELSE slot[1]

\* A get that consumes the slot as take does.
RowGetClears(vals, cols, T, index) ==
    LET i == Idx(index, cols) IN
    IF i = None THEN Outcome(None, FALSE, vals)
    ELSE LET slot == VecGet(vals, i[1]) IN
         IF slot = None \/ slot[1] = None THEN Outcome(None, FALSE, vals)
         ELSE LET c == from_value(T, slot[1][1]) IN
              Outcome(c.val, c.panic, [vals EXCEPT ![i[1] + 1] = None])

\* fn get
RowGet(vals, cols, T, index) ==
    LET i == Idx(index, cols) IN
    IF i = None THEN Outcome(None, FALSE, vals)
    ELSE LET slot == VecGet(vals, i[1]) IN
         IF slot = None \/ slot[1] = None THEN Outcome(None, FALSE, vals)
         ELSE LET c == from_value(T, slot[1][1]) IN
              Outcome(c.val, c.panic, vals)

\* fn get_opt
RowGetOpt(vals, cols, T, index) ==
    LET i == Idx(index, cols) IN
    IF i = None THEN Outcome(None, FALSE, vals)
    ELSE LET slot == VecGet(vals, i[1]) IN
         IF slot = None \/ slot[1] = None THEN Outcome(None, FALSE, vals)
         ELSE Outcome(Some(from_value_opt(T, slot[1][1])), FALSE, vals)

\* A take that reads the slot without clearing it.
RowTakeKeeps(vals, cols, T, index) ==
    LET i == Idx(index, cols) IN
    IF i = None THEN Outcome(None, FALSE, vals)
    ELSE LET slot == VecGet(vals, i[1]) IN
         IF slot = None \/ slot[1] = None THEN Outcome(None, FALSE, vals)
         ELSE LET c == from_value(T, slot[1][1]) IN
              Outcome(c.val, c.panic, vals)

\* A take that removes the element from the vector (Vec::remove) instead of
\* clearing the slot.
RowTakeRemoves(vals, cols, T, index) ==
    LET i == Idx(index, cols) IN
    IF i = None THEN Outcome(None, FALSE, vals)
    ELSE LET slot == VecGet(vals, i[1]) IN
         IF slot = None \/ slot[1] = None THEN Outcome(None, FALSE, vals)
         ELSE LET c == from_value(T, slot[1][1]) IN
              Outcome(c.val, c.panic,
                      SubSeq(vals, 1, i[1]) \o SubSeq(vals, i[1] + 2, Len(vals)))

\* fn take: Option::take clears the slot before the value is converted.
RowTake(vals, cols, T, index) ==
    LET i == Idx(index, cols) IN
    IF i = None THEN Outcome(None, FALSE, vals)
    ELSE LET slot == VecGet(vals, i[1]) IN
         IF slot = None \/ slot[1] = None THEN Outcome(None, FALSE, vals)
         ELSE LET c == from_value(T, slot[1][1]) IN
              Outcome(c.val, c.panic, [vals EXCEPT ![i[1] + 1] = None])

\* A take_opt that converts first and clears the slot only on success.
RowTakeOptKeepsOnErr(vals, cols, T, index) ==
    LET i == Idx(index, cols) IN
    IF i = None THEN Outcome(None, FALSE, vals)
    ELSE LET slot == VecGet(vals, i[1]) IN
         IF slot = None \/ slot[1] = None THEN Outcome(None, FALSE, vals)
         ELSE LET r == from_value_opt(T, slot[1][1]) IN
              Outcome(Some(r), FALSE,
                      IF r.ok THEN [vals EXCEPT ![i[1] + 1] = None] ELSE vals)

\* fn take_opt
RowTakeOpt(vals, cols, T, index) ==
    LET i == Idx(index, cols) IN
    IF i = None THEN Outcome(None, FALSE, vals)
    ELSE LET slot == VecGet(vals, i[1]) IN
         IF slot = None \/ slot[1] = None THEN Outcome(None, FALSE, vals)
         ELSE Outcome(Some(from_value_opt(T, slot[1][1])), FALSE,
                      [vals EXCEPT ![i[1] + 1] = None])

\* An unwrap that drops absent slots instead of failing.
RowUnwrapSkipsAbsent(vals) ==
    LET RECURSIVE Keep(_)
        Keep(k) == IF k > Len(vals) THEN <<>>
                   ELSE (IF vals[k] = None THEN <<>> ELSE <<vals[k][1]>>) \o Keep(k + 1)
    IN Outcome(Some(Keep(1)), FALSE, vals)

\* fn unwrap: expect() panics on the first absent slot.
RowUnwrap(vals) ==
    IF \E k \in 1..Len(vals) : vals[k] = None
    THEN Outcome(None, TRUE, vals)
    ELSE Outcome(Some([k \in 1..Len(vals) |-> vals[k][1]]), FALSE, vals)

\* The requests log after an extraction: none of get, get_opt, take and
\* take_opt writes to self.requests.
RequestsAfter(reqs, cols, hit, kind) == reqs

NoIndex == [kind |-> "ord", n |-> 0, s |-> ""]

\* One extraction call (get, get_opt, take, take_opt) and its bookkeeping.
Extract(op, kind, T, index, o) ==
    LET hit == Hit(values, columns, index) IN
    /\ values' = o.values
    /\ requests' = RequestsAfter(requests, columns, hit, kind)
    /\ rowStatus' = IF o.panic THEN "panicked" ELSE "live"
    /\ rowCall' = [op |-> op, kind |-> kind, index |-> index, ty |-> T,
                   ret |-> o.ret, panic |-> o.panic, before |-> values,
                   hit |-> hit, takenBefore |-> rowTaken]
    /\ rowTaken' = IF kind = "Take" /\ hit # None
                   THEN rowTaken \cup {hit[1]} ELSE rowTaken
    /\ rowGotten' = (rowGotten \/ (kind = "Get" /\ hit # None))
    /\ UNCHANGED <<columns, rowOrig>>
    /\ UNCHANGED <<stmtVars, resVars, connVars>>

\* A call that reads the row without an extraction (len, as_ref, unwrap).
Inspect(op, index, o, status) ==
    /\ rowStatus' = status
    /\ rowCall' = [op |-> op, kind |-> "None", index |-> index, ty |-> "Int",
                   ret |-> o.ret, panic |-> o.panic, before |-> values,
                   hit |-> None, takenBefore |-> rowTaken]
    /\ UNCHANGED <<values, columns, requests, rowOrig, rowTaken, rowGotten>>
    /\ UNCHANGED <<stmtVars, resVars, connVars>>

DoGet ==
    /\ rowStatus = "live"
    /\ \E T \in Types, index \in Indexes :
         Extract("get", "Get", T, index, RowGet(values, columns, T, index))

DoGetOpt ==
    /\ rowStatus = "live"
    /\ \E T \in Types, index \in Indexes :
         Extract("get_opt", "Get", T, index, RowGetOpt(values, columns, T, index))

DoTake ==
    /\ rowStatus = "live"
    /\ \E T \in Types, index \in Indexes :
         Extract("take", "Take", T, index, RowTake(values, columns, T, index))

DoTakeOpt ==
    /\ rowStatus = "live"
    /\ \E T \in Types, index \in Indexes :
         Extract("take_opt", "Take", T, index, RowTakeOpt(values, columns, T, index))

DoAsRef ==
    /\ rowStatus = "live"
    /\ \E n \in 0..MaxCols :
         Inspect("as_ref", [kind |-> "ord", n |-> n, s |-> ""],
                 Outcome(RowAsRef(values, n), FALSE, values), "live")

DoLen ==
    /\ rowStatus = "live"
    /\ Inspect("len", NoIndex, Outcome(Some(RowLen(values)), FALSE, values), "live")

\* unwrap takes self by value: the row is gone afterwards.
DoUnwrap ==
    /\ rowStatus = "live"
    /\ LET o == RowUnwrap(values) IN
       Inspect("unwrap", NoIndex, o, IF o.panic THEN "panicked" ELSE "unwrapped")

\* A MockRow as its holder constructs it: one optional value per column.
RowInit ==
    /\ columns \in SeqsUpTo(ColNames, MaxCols)
    /\ values \in [1..Len(columns) -> {None} \cup {Some(v) : v \in Values}]
    /\ requests = <<>>
    /\ rowStatus = "live"
    /\ rowCall = [op |-> "new", kind |-> "None", index |-> NoIndex, ty |-> "Int",
                  ret |-> None, panic |-> FALSE, before |-> values,
                  hit |-> None, takenBefore |-> {}]
    /\ rowOrig = values
    /\ rowTaken = {}
    /\ rowGotten = FALSE

RowNext == DoGet \/ DoGetOpt \/ DoTake \/ DoTakeOpt \/ DoAsRef \/ DoLen \/ DoUnwrap

----------------------------------------------------------------------------
(* MockStmt (impl GenericStmt for MockStmt).                               *)

Reply(ret, panic, invoked) == [ret |-> ret, panic |-> panic, invoked |-> invoked]

\* A column_index that scans the columns list instead of reading the map.
StmtColumnIndexScans(cols, indexes, name) ==
    IF cols = None THEN None ELSE Idx([kind |-> "name", n |-> 0, s |-> name], cols[1])

\* fn column_index: a lookup in the column_indexes map.
StmtColumnIndex(cols, indexes, name) ==
    IF name \in DOMAIN indexes THEN Some(indexes[name]) ELSE None

\* fn execute
StmtExecute(fexec, ffirst, q, params) ==
    IF fexec # None
    THEN Reply(Some(Apply(fexec[1], q, IntoParams(params))), FALSE,
               <<Invocation("fn_execute", fexec[1], q, IntoParams(params))>>)
    ELSE Reply(None, TRUE, <<>>)

\* A first_exec that dispatches to the execute callback.
StmtFirstExecUsesExecute(fexec, ffirst, q, params) ==
    IF fexec # None
    THEN Reply(Some(Apply(fexec[1], q, IntoParams(params))), FALSE,
               <<Invocation("fn_execute", fexec[1], q, IntoParams(params))>>)
    ELSE Reply(None, TRUE, <<>>)

\* fn first_exec
StmtFirstExec(fexec, ffirst, q, params) ==
    IF ffirst # None
    THEN Reply(Some(Apply(ffirst[1], q, IntoParams(params))), FALSE,
               <<Invocation("fn_first_exec", ffirst[1], q, IntoParams(params))>>)
    ELSE Reply(None, TRUE, <<>>)

NoInput == [form |-> "unit", kind |-> "", v |-> <<>>]

StmtCalled(op, name, params, r) ==
    /\ stmtCall' = [op |-> op, name |-> name, params |-> params, ret |-> r.ret,
                    panic |-> r.panic, invoked |-> r.invoked]
    /\ stmtStatus' = IF r.panic THEN "panicked" ELSE "live"
    /\ UNCHANGED <<stmt_columns, stmt_column_indexes, fn_execute,
                   stmt_fn_first_exec, query, stmtOrigQuery>>
    /\ UNCHANGED <<rowVars, resVars, connVars>>

DoStmtColumnIndex ==
    /\ stmtStatus = "live"
    /\ \E name \in AskNames :
         StmtCalled("column_index", name, NoInput,
                    Reply(StmtColumnIndex(stmt_columns, stmt_column_indexes, name),
                          FALSE, <<>>))

DoStmtExecute ==
    /\ stmtStatus = "live"
    /\ \E params \in ParamInputs :
         StmtCalled("execute", "", params,
                    StmtExecute(fn_execute, stmt_fn_first_exec, query, params))

DoStmtFirstExec ==
    /\ stmtStatus = "live"
    /\ \E params \in ParamInputs :
         StmtCalled("first_exec", "", params,
                    StmtFirstExec(fn_execute, stmt_fn_first_exec, query, params))

\* A MockStmt as its holder constructs it: every field is public and chosen
\* freely, the name -> ordinal map included.
StmtInit ==
    /\ stmt_columns \in {None} \cup {Some(c) : c \in SeqsUpTo(ColNames, MaxCols)}
    /\ stmt_column_indexes \in IndexMaps
    /\ fn_execute \in Slots
    /\ stmt_fn_first_exec \in Slots
    /\ query \in Queries
    /\ stmtOrigQuery = query
    /\ stmtStatus = "live"
    /\ stmtCall = [op |-> "new", name |-> "", params |-> NoInput, ret |-> None,
                   panic |-> FALSE, invoked |-> <<>>]

StmtNext == DoStmtColumnIndex \/ DoStmtExecute \/ DoStmtFirstExec

----------------------------------------------------------------------------
(* MockQueryResult (impl Iterator, impl GenericQueryResult).               *)

\* A next that drains the buffer from its head (Vec::remove(0)).
QrNextHeadFirst(rws) ==
    IF rws = None THEN [ret |-> None, rows |-> rws]
    ELSE IF rws[1] = <<>> THEN [ret |-> None, rows |-> rws]
    ELSE [ret |-> Some(Head(rws[1])), rows |-> Some(Tail(rws[1]))]

\* fn next: None when rows is None, else Vec::pop.
QrNext(rws) ==
    IF rws = None THEN [ret |-> None, rows |-> rws]
    ELSE IF rws[1] = <<>> THEN [ret |-> None, rows |-> rws]
    ELSE [ret |-> Some(rws[1][Len(rws[1])]),
          rows |-> Some(SubSeq(rws[1], 1, Len(rws[1]) - 1))]

\* fn column_index: a lookup in the column_indexes map.
QrColumnIndex(cols, indexes, name) ==
    IF name \in DOMAIN indexes THEN Some(indexes[name]) ELSE None

DoNext ==
    LET r == QrNext(rows) IN
    /\ rows' = r.rows
    /\ resCall' = [op |-> "next", name |-> "", ret |-> r.ret]
    /\ resYielded' = IF r.ret # None THEN Append(resYielded, r.ret[1]) ELSE resYielded
    /\ resExhausted' = (resExhausted \/ r.ret = None)
    /\ UNCHANGED <<res_columns, res_column_indexes, resSupplied>>
    /\ UNCHANGED <<rowVars, stmtVars, connVars>>

DoQrColumnIndex ==
    \E name \in AskNames :
       /\ resCall' = [op |-> "column_index", name |-> name,
                      ret |-> QrColumnIndex(res_columns, res_column_indexes, name)]
       /\ UNCHANGED <<res_columns, res_column_indexes, rows,
                      resSupplied, resYielded, resExhausted>>
       /\ UNCHANGED <<rowVars, stmtVars, connVars>>

\* A MockQueryResult as the producing callback builds it.
ResInit ==
    /\ res_columns \in SeqsUpTo(ColNames, MaxCols)
    /\ res_column_indexes \in IndexMaps
    /\ rows \in {None} \cup {Some(b) : b \in SeqsUpTo(Entries, MaxRows)}
    /\ resSupplied = rows
    /\ resYielded = <<>>
    /\ resExhausted = FALSE
    /\ resCall = [op |-> "new", name |-> "", ret |-> None]

ResNext == DoNext \/ DoQrColumnIndex

----------------------------------------------------------------------------
(* MockConnection (impl GenericConnection for MockConnection).             *)
(* self is the record of the five callback slots.                          *)

Self ==
    [fn_query |-> fn_query, fn_first |-> fn_first, fn_prepare |-> fn_prepare,
     fn_prep_exec |-> fn_prep_exec, fn_first_exec |-> fn_first_exec]

Dispatch(slotName, slot, q, p) ==
    IF slot # None
    THEN Reply(Some(Apply(slot[1], q, p)), FALSE, <<Invocation(slotName, slot[1], q, p)>>)
    ELSE Reply(None, TRUE, <<>>)

\* fn query
ConnQuery(self, q) == Dispatch("fn_query", self.fn_query, q, NoParams)

\* A first that falls back to the query callback when its own is unset.
ConnFirstFallsBack(self, q) ==
    IF self.fn_first # None THEN Dispatch("fn_first", self.fn_first, q, NoParams)
    ELSE Dispatch("fn_query", self.fn_query, q, NoParams)

\* fn first
ConnFirst(self, q) == Dispatch("fn_first", self.fn_first, q, NoParams)

\* fn prepare
ConnPrepare(self, q) == Dispatch("fn_prepare", self.fn_prepare, q, NoParams)

\* fn prep_exec
ConnPrepExec(self, q, params) ==
    Dispatch("fn_prep_exec", self.fn_prep_exec, q, IntoParams(params))

\* fn first_exec
ConnFirstExec(self, q, params) ==
    Dispatch("fn_first_exec", self.fn_first_exec, q, IntoParams(params))

ConnCalled(op, q, params, r) ==
    /\ connCall' = [op |-> op, q |-> q, params |-> params, ret |-> r.ret,
                    panic |-> r.panic, invoked |-> r.invoked]
    /\ connStatus' = IF r.panic THEN "panicked" ELSE "live"
    /\ UNCHANGED <<fn_query, fn_first, fn_prepare, fn_prep_exec, fn_first_exec>>
    /\ UNCHANGED <<rowVars, stmtVars, resVars>>

DoQuery ==
    /\ connStatus = "live"
    /\ \E q \in Queries : ConnCalled("query", q, NoInput, ConnQuery(Self, q))

DoFirst ==
    /\ connStatus = "live"
    /\ \E q \in Queries : ConnCalled("first", q, NoInput, ConnFirst(Self, q))

DoPrepare ==
    /\ connStatus = "live"
    /\ \E q \in Queries : ConnCalled("prepare", q, NoInput, ConnPrepare(Self, q))

DoPrepExec ==
    /\ connStatus = "live"
    /\ \E q \in Queries, params \in ParamInputs :
         ConnCalled("prep_exec", q, params, ConnPrepExec(Self, q, params))

DoFirstExec ==
    /\ connStatus = "live"
    /\ \E q \in Queries, params \in ParamInputs :
         ConnCalled("first_exec", q, params, ConnFirstExec(Self, q, params))

\* A MockConnection as its holder constructs it: each slot set or not.
ConnInit ==
    /\ fn_query \in Slots
    /\ fn_first \in Slots
    /\ fn_prepare \in Slots
    /\ fn_prep_exec \in Slots
    /\ fn_first_exec \in Slots
    /\ connStatus = "live"
    /\ connCall = [op |-> "new", q |-> "", params |-> NoInput, ret |-> None,
                   panic |-> FALSE, invoked |-> <<>>]

ConnNext == DoQuery \/ DoFirst \/ DoPrepare \/ DoPrepExec \/ DoFirstExec

----------------------------------------------------------------------------
(* Specifications: one per mock object, the other objects held at one      *)
(* constructed value that no action of the specification touches.          *)

RowFixed ==
    /\ columns = <<>>
    /\ values = <<>>
    /\ requests = <<>>
    /\ rowStatus = "live"
    /\ rowCall = [op |-> "new", kind |-> "None", index |-> NoIndex, ty |-> "Int",
                  ret |-> None, panic |-> FALSE, before |-> <<>>,
                  hit |-> None, takenBefore |-> {}]
    /\ rowOrig = <<>>
    /\ rowTaken = {}
    /\ rowGotten = FALSE

StmtCallbacksFixed ==
    /\ fn_execute = None
    /\ stmt_fn_first_exec = None
    /\ query = "SELECT 1"
    /\ stmtOrigQuery = "SELECT 1"
    /\ stmtStatus = "live"
    /\ stmtCall = [op |-> "new", name |-> "", params |-> NoInput, ret |-> None,
                   panic |-> FALSE, invoked |-> <<>>]

StmtFixed ==
    /\ stmt_columns = None
    /\ stmt_column_indexes = <<>>
    /\ StmtCallbacksFixed

ResRowsFixed ==
    /\ rows = None
    /\ resSupplied = None
    /\ resYielded = <<>>
    /\ resExhausted = FALSE
    /\ resCall = [op |-> "new", name |-> "", ret |-> None]

ResFixed ==
    /\ res_columns = <<>>
    /\ res_column_indexes = <<>>
    /\ ResRowsFixed

ConnFixed ==
    /\ fn_query = None
    /\ fn_first = None
    /\ fn_prepare = None
    /\ fn_prep_exec = None
    /\ fn_first_exec = None
    /\ connStatus = "live"
    /\ connCall = [op |-> "new", q |-> "", params |-> NoInput, ret |-> None,
                   panic |-> FALSE, invoked |-> <<>>]

\* Each specification starts from the constructed object, before any call.
RowSpecInit ==
    /\ StmtFixed
    /\ ResFixed
    /\ ConnFixed
    /\ RowInit
    /\ rowCall.op = "new"

StmtSpecInit ==
    /\ RowFixed
    /\ ResFixed
    /\ ConnFixed
    /\ StmtInit
    /\ stmtCall.op = "new"

ResSpecInit ==
    /\ RowFixed
    /\ StmtFixed
    /\ ConnFixed
    /\ ResInit
    /\ resCall.op = "new"

ConnSpecInit ==
    /\ RowFixed
    /\ StmtFixed
    /\ ResFixed
    /\ ConnInit
    /\ connCall.op = "new"

RowSpec == RowSpecInit /\ [][RowNext]_vars

StmtSpec == StmtSpecInit /\ [][StmtNext]_vars

ResSpec == ResSpecInit /\ [][ResNext]_vars

ConnSpec == ConnSpecInit /\ [][ConnNext]_vars

\* Column-name lookup on a statement and on a result set side by side.
LookupInit ==
    /\ stmt_columns \in {None} \cup {Some(c) : c \in SeqsUpTo(ColNames, MaxCols)}
    /\ stmt_column_indexes \in IndexMaps
    /\ StmtCallbacksFixed
    /\ res_columns \in SeqsUpTo(ColNames, MaxCols)
    /\ res_column_indexes \in IndexMaps
    /\ ResRowsFixed
    /\ RowFixed
    /\ ConnFixed
    /\ stmtCall.op = "new" /\ resCall.op = "new"

LookupNext == DoStmtColumnIndex \/ DoQrColumnIndex

LookupSpec == LookupInit /\ [][LookupNext]_vars

----------------------------------------------------------------------------
(* Properties of MockRow, stated for RowSpec.                              *)

IsExtraction == rowCall.kind \in RowRequestType

\* The value an extraction found in its slot before it ran.
Found == rowCall.before[rowCall.hit[1] + 1][1]

\* C1: every extraction (get, get_opt, take, take_opt) that resolves its
\* index and finds its slot present appends exactly one (column, kind) entry
\* to requests, and every other extraction appends none; so requests grows
\* by one entry per successful extraction, in call order.
C1_RequestsLogged ==
    [][ (rowCall'.kind \in RowRequestType) =>
          requests' = IF rowCall'.hit # None
                      THEN Append(requests,
                                  <<columns[rowCall'.hit[1] + 1], rowCall'.kind>>)
                      ELSE requests ]_vars

\* C2: get and get_opt on a present slot return its value converted and
\* leave every slot as it was; a slot that no take has reached still holds
\* its constructed value for any later get or take, however many gets came
\* before.
C2_GetKeepsValue ==
    /\ (rowCall.op \in {"get", "get_opt"} /\ rowCall.hit # None) =>
          /\ values = rowCall.before
          /\ values[rowCall.hit[1] + 1] = Some(Found)
          /\ (rowCall.op = "get" /\ Found.tag = rowCall.ty) =>
                (~rowCall.panic /\ rowCall.ret = Some(Found.v))
          /\ (rowCall.op = "get_opt" /\ Found.tag = rowCall.ty) =>
                (rowCall.ret = Some([ok |-> TRUE, val |-> Some(Found.v), err |-> None]))
    /\ \A i \in 0..(Len(rowOrig) - 1) :
          (/\ IsExtraction
           /\ Idx(rowCall.index, columns) = Some(i)
           /\ i \notin rowCall.takenBefore
           /\ rowOrig[i + 1] # None) =>
             (rowCall.hit = Some(i) /\ rowCall.before[i + 1] = rowOrig[i + 1])

\* C2 witness: a take finds the value of a one-column row's only slot after
\* a get or get_opt has read it.
C2_Witness ==
    /\ Len(values) = 1
    /\ rowGotten
    /\ rowCall.op = "take"
    /\ rowCall.hit # None
    /\ rowCall.ret = Some(Found.v)

\* C3: take on a present slot returns the value converted and leaves the
\* slot absent; from then on the slot stays absent and every get, get_opt,
\* take, take_opt and as_ref at it returns None.
C3_TakeClears ==
    /\ (rowCall.kind = "Take" /\ rowCall.hit # None) =>
          /\ values[rowCall.hit[1] + 1] = None
          /\ (rowCall.op = "take" /\ Found.tag = rowCall.ty) =>
                (~rowCall.panic /\ rowCall.ret = Some(Found.v))
    /\ \A i \in rowTaken : values[i + 1] = None
    /\ \A i \in rowCall.takenBefore :
          /\ (IsExtraction /\ Idx(rowCall.index, columns) = Some(i)) =>
                (rowCall.ret = None /\ ~rowCall.panic)
          /\ (rowCall.op = "as_ref" /\ rowCall.index.n = i) => rowCall.ret = None

\* C3 witness: a get at a slot taken earlier, with another slot taken too.
C3_Witness ==
    /\ rowCall.op = "get"
    /\ Idx(rowCall.index, columns) # None
    /\ Idx(rowCall.index, columns)[1] \in rowCall.takenBefore
    /\ Cardinality(rowCall.takenBefore) >= 2

\* C4: unwrap on a row with every slot present returns the values in column
\* order; unwrap on a row with an absent slot panics and returns nothing.
C4_Unwrap ==
    rowCall.op = "unwrap" =>
       /\ rowTaken # {} => rowCall.panic
       /\ IF \A k \in 1..Len(rowCall.before) : rowCall.before[k] # None
          THEN /\ ~rowCall.panic
               /\ rowStatus = "unwrapped"
               /\ rowCall.ret # None
               /\ Len(rowCall.ret[1]) = Len(rowCall.before)
               /\ \A k \in 1..Len(rowCall.before) :
                     rowCall.ret[1][k] = rowCall.before[k][1]
          ELSE /\ rowCall.panic
               /\ rowStatus = "panicked"
               /\ rowCall.ret = None

\* C4 witness: unwrap panics on a row from which a column was taken.
C4_Witness ==
    /\ rowCall.op = "unwrap"
    /\ rowCall.panic
    /\ rowTaken # {}

\* C9: get_opt and take_opt on a present slot whose value does not convert
\* return Some(Err) without panicking; get_opt leaves the slot present,
\* take_opt has cleared it.
C9_FallibleMismatch ==
    (/\ rowCall.op \in {"get_opt", "take_opt"}
     /\ rowCall.hit # None
     /\ Found.tag # rowCall.ty) =>
        /\ ~rowCall.panic
        /\ rowStatus = "live"
        /\ rowCall.ret = Some([ok |-> FALSE, val |-> None, err |-> Some(Found)])
        /\ rowCall.op = "get_opt" => values[rowCall.hit[1] + 1] = Some(Found)
        /\ rowCall.op = "take_opt" =>
              (values[rowCall.hit[1] + 1] = None /\ rowCall.hit[1] \in rowTaken)

\* C9 witness: a take_opt whose conversion failed.
C9_Witness ==
    /\ rowCall.op = "take_opt"
    /\ rowCall.hit # None
    /\ Found.tag # rowCall.ty
    /\ rowCall.ret # None
    /\ ~rowCall.ret[1].ok

\* C10: the row keeps its constructed length and len() reports it; a slot
\* only ever goes from present to absent; a take changes no slot but its own.
C10_FixedShape ==
    /\ Len(values) = Len(rowOrig)
    /\ Len(values) = Len(columns)
    /\ rowCall.op = "len" => rowCall.ret = Some(Len(rowOrig))
    /\ \A k \in 1..Len(rowOrig) :
          /\ values[k] \in {rowOrig[k], None}
          /\ Len(rowCall.before) = Len(rowOrig)
          /\ values[k] \in {rowCall.before[k], None}
          /\ (rowCall.hit = None \/ rowCall.hit[1] + 1 # k) =>
                values[k] = rowCall.before[k]

\* C10 witness: a take cleared its slot while another slot stays present.
C10_Witness ==
    /\ rowCall.kind = "Take"
    /\ rowCall.hit # None
    /\ \E k \in 1..Len(values) : k # rowCall.hit[1] + 1 /\ values[k] # None

----------------------------------------------------------------------------
(* Properties of MockConnection, stated for ConnSpec.                      *)

\* The callback slot that belongs to a connection operation.
OwnSlot(op) ==
    CASE op = "query" -> [name |-> "fn_query", slot |-> fn_query]
      [] op = "first" -> [name |-> "fn_first", slot |-> fn_first]
      [] op = "prepare" -> [name |-> "fn_prepare", slot |-> fn_prepare]
      [] op = "prep_exec" -> [name |-> "fn_prep_exec", slot |-> fn_prep_exec]
      [] op = "first_exec" -> [name |-> "fn_first_exec", slot |-> fn_first_exec]

\* The params a connection callback is to receive for the last call.
PassedParams ==
    IF connCall.op \in {"prep_exec", "first_exec"}
    THEN IntoParams(connCall.params) ELSE NoParams

\* C5: each of query, first, prepare, prep_exec and first_exec, when its own
\* slot is set, invokes that slot's callback exactly once with the caller's
\* query text and params and returns the callback's result; when its own
\* slot is unset it panics, whatever the other slots hold.
C5_ConnDispatch ==
    connCall.op # "new" =>
       LET own == OwnSlot(connCall.op) IN
       IF own.slot # None
       THEN /\ ~connCall.panic
            /\ connStatus = "live"
            /\ connCall.invoked =
                  <<Invocation(own.name, own.slot[1], connCall.q, PassedParams)>>
            /\ connCall.ret = Some(Apply(own.slot[1], connCall.q, PassedParams))
       ELSE /\ connCall.panic
            /\ connStatus = "panicked"
            /\ connCall.invoked = <<>>
            /\ connCall.ret = None

\* C5 witness: only fn_query is set and a call to first panicked.
C5_Witness ==
    /\ fn_query # None
    /\ fn_first = None /\ fn_prepare = None
    /\ fn_prep_exec = None /\ fn_first_exec = None
    /\ connCall.op = "first"
    /\ connCall.panic

----------------------------------------------------------------------------
(* Properties of MockQueryResult, stated for ResSpec.                      *)

Reverse(sq) == [k \in 1..Len(sq) |-> sq[Len(sq) + 1 - k]]

\* C6: the pulls of a result built with rows [e1 .. en] return en .. e1, each
\* entry once; a pull returns None only when all n have been returned, and
\* every pull after that returns None.  With rows absent every pull returns
\* None.
C6_TailFirstDrain ==
    /\ resSupplied = None =>
          /\ rows = None
          /\ resYielded = <<>>
          /\ resCall.op = "next" => resCall.ret = None
    /\ resSupplied # None =>
          /\ rows # None
          /\ rows[1] \o Reverse(resYielded) = resSupplied[1]
          /\ (resCall.op = "next" /\ resCall.ret # None) =>
                /\ resYielded # <<>>
                /\ resCall.ret[1] = resYielded[Len(resYielded)]
                /\ resCall.ret[1] = resSupplied[1][Len(rows[1]) + 1]
          /\ (resCall.op = "next" /\ resCall.ret = None) =>
                Len(resYielded) = Len(resSupplied[1])
          /\ resExhausted =>
                /\ rows[1] = <<>>
                /\ resYielded = Reverse(resSupplied[1])
                /\ resCall.op = "next" => resCall.ret = None

\* C6 witness: a buffer of two different entries or more, drained to its end.
C6_Witness ==
    /\ resExhausted
    /\ Len(resYielded) >= 2
    /\ resYielded[1] # resYielded[2]
    /\ resCall.op = "next"

----------------------------------------------------------------------------
(* Properties of column-name lookup, stated for LookupSpec.                *)

\* The columns list as a sequence (an absent list has no columns).
StmtCols == IF stmt_columns = None THEN <<>> ELSE stmt_columns[1]

\* A lookup of name that answers as the list cols does.
AgreesWithColumns(cols, name, ret) ==
    /\ \A k \in 1..Len(cols) : cols[k] = name => ret = Some(k - 1)
    /\ (\A k \in 1..Len(cols) : cols[k] # name) => ret = None

\* The map holds exactly the names of cols, each with an ordinal it has there.
MapMatches(cols, indexes) ==
    /\ DOMAIN indexes = {cols[k] : k \in 1..Len(cols)}
    /\ \A n \in DOMAIN indexes :
          indexes[n] < Len(cols) /\ cols[indexes[n] + 1] = n

\* What the code gives: the map's entry, which names a column of that name
\* when the map matches the list.
FollowsMap(cols, indexes, name, ret) ==
    /\ ret = IF name \in DOMAIN indexes THEN Some(indexes[name]) ELSE None
    /\ MapMatches(cols, indexes) =>
          /\ ret # None => (ret[1] < Len(cols) /\ cols[ret[1] + 1] = name)
          /\ ret = None => \A k \in 1..Len(cols) : cols[k] # name

\* C7 as stated: column_index(name) returns k for a column called name at
\* ordinal k and None for a name no column carries, without panicking.
C7_LookupAgreesWithColumns ==
    /\ stmtStatus = "live"
    /\ stmtCall.op = "column_index" =>
          AgreesWithColumns(StmtCols, stmtCall.name, stmtCall.ret)
    /\ resCall.op = "column_index" =>
          AgreesWithColumns(res_columns, resCall.name, resCall.ret)

\* C7 amended: column_index(name) returns the ordinal the object's own
\* column_indexes map holds for name and None for a name the map lacks,
\* without panicking; the result names a column called name, and None means
\* no column carries it, whenever that map matches the columns list.
C7_LookupFollowsMap ==
    /\ stmtStatus = "live"
    /\ stmtCall.op = "column_index" =>
          FollowsMap(StmtCols, stmt_column_indexes, stmtCall.name, stmtCall.ret)
    /\ resCall.op = "column_index" =>
          FollowsMap(res_columns, res_column_indexes, resCall.name, resCall.ret)

\* C7 witness: both objects carry a matching map for two columns, the
\* statement found a name at ordinal 1 and the result did not find a name.
C7_Witness ==
    /\ stmt_columns # None
    /\ Len(StmtCols) = 2
    /\ MapMatches(StmtCols, stmt_column_indexes)
    /\ stmtCall.op = "column_index"
    /\ stmtCall.ret = Some(1)
    /\ MapMatches(res_columns, res_column_indexes)
    /\ resCall.op = "column_index"
    /\ resCall.ret = None

----------------------------------------------------------------------------
(* Properties of MockStmt, stated for StmtSpec.                            *)

\* C8: execute and first_exec each pass the statement's query text, as held
\* since construction, and the caller's params to their own callback and
\* return its result; each panics when its own callback is unset, whatever
\* the other slot holds.
C8_StmtDispatch ==
    /\ query = stmtOrigQuery
    /\ stmtCall.op \in {"execute", "first_exec"} =>
          LET own == IF stmtCall.op = "execute"
                     THEN [name |-> "fn_execute", slot |-> fn_execute]
                     ELSE [name |-> "fn_first_exec", slot |-> stmt_fn_first_exec]
              p == IntoParams(stmtCall.params)
          IN IF own.slot # None
             THEN /\ ~stmtCall.panic
                  /\ stmtStatus = "live"
                  /\ stmtCall.invoked =
                        <<Invocation(own.name, own.slot[1], stmtOrigQuery, p)>>
                  /\ stmtCall.ret = Some(Apply(own.slot[1], stmtOrigQuery, p))
             ELSE /\ stmtCall.panic
                  /\ stmtStatus = "panicked"
                  /\ stmtCall.invoked = <<>>
                  /\ stmtCall.ret = None

\* C8 witness: first_exec panicked although the execute callback is set.
C8_Witness ==
    /\ stmtCall.op = "first_exec"
    /\ stmtCall.panic
    /\ fn_execute # None
    /\ stmt_fn_first_exec = None

====
